---- MODULE Spec2Model ----
(***************************************************************************)
(* Focara waitlist registration service.                                   *)
(*                                                                         *)
(* The model follows server/routes.ts (the two request handlers),          *)
(* the DatabaseStorage class (the three waitlist store operations) and     *)
(* shared/schema.ts (the waitlist_registrations table and the insert       *)
(* schema).  A POST /api/waitlist handler is an async function: it runs    *)
(* synchronously up to its first await, and every awaited store call is    *)
(* one database statement, so the atomic steps of a request are            *)
(*   PostWaitlist  (body parsed and validated, 400 or lookup issued)       *)
(*   Lookup        (the SELECT by email executes, 409 or insert issued)    *)
(*   Insert        (the INSERT executes, 201 or constraint violation)      *)
(* and the steps of different requests interleave freely.                  *)
(***************************************************************************)
EXTENDS Integers, Sequences, FiniteSets, TLC

(***************************************************************************)
(* Bounds.                                                                 *)
(***************************************************************************)
MaxReqs == 2        \* POST /api/waitlist requests in one behaviour

Reqs == 1..MaxReqs
Ids == 1..MaxReqs   \* values gen_random_uuid() may produce

(***************************************************************************)
(* JSON values of a request body.  Strings are sequences of characters.    *)
(***************************************************************************)
Undefined == [type |-> "undefined"]
Num(n) == [type |-> "number", num |-> n]
Str(s) == [type |-> "string", str |-> s]

Ada == <<"A", "d", "a">>
Bob == <<"B", "o", "b">>
Lovelace == <<"L">>
EmptyString == <<>>
EmailA == <<"a", "@", "e", ".", "c", "o">>
EmailB == <<"b", "@", "e", ".", "c", "o">>
NotAnEmail == <<"a", "d", "a">>

EmailAUpper == <<"A", "@", "e", ".", "c", "o">>

\* Lower-casing of a string.
ToLower(c) ==
    CASE c = "A" -> "a" [] c = "B" -> "b" [] c = "L" -> "l" [] OTHER -> c
Lower(s) == [i \in 1..Len(s) |-> ToLower(s[i])]

MkBody(f, l, e) == [firstName |-> f, lastName |-> l, email |-> e]

\* An id string supplied by the caller; uuid strings are numbered as in Ids.
CallerId(n) == [type |-> "string", uuid |-> n]
MkBodyWithId(f, l, e, n) ==
    [firstName |-> f, lastName |-> l, email |-> e, id |-> CallerId(n)]

\* The request bodies the clients send.
Bodies ==
    { MkBody(Str(Ada), Str(Lovelace), Str(EmailA)),
      MkBody(Str(Bob), Str(Lovelace), Str(EmailA)),
      MkBody(Undefined, Str(Lovelace), Str(EmailA)),
      MkBody(Str(Ada), Undefined, Str(EmailA)),
      MkBody(Str(Ada), Str(Lovelace), Num(7)),
      MkBody(Str(EmptyString), Str(Lovelace), Str(EmailA)),
      MkBody(Str(Ada), Str(EmptyString), Str(EmailB)),
      MkBody(Str(Ada), Str(Lovelace), Str(NotAnEmail)),
      MkBodyWithId(Str(Bob), Str(Lovelace), Str(EmailB), 1),
      MkBody(Str(Ada), Str(Lovelace), Str(EmailAUpper)) }

Fields == <<"firstName", "lastName", "email">>

(***************************************************************************)
(* shared/schema.ts: insertWaitlistRegistrationSchema.  createInsertSchema *)
(* maps a text(...).notNull() column without default to a required         *)
(* z.string(); pick keeps firstName, lastName and email.  z.string()       *)
(* accepts every string and rejects every other value with an             *)
(* invalid_type issue.                                                     *)
(***************************************************************************)
ZodString(v) == v.type = "string"

Issue(body, f) ==
    [code |-> "invalid_type", expected |-> "string",
     received |-> body[f].type, path |-> <<f>>]

safeParse(body) ==
    LET bad == SelectSeq(Fields, LAMBDA f : ~ZodString(body[f]))
    IN  IF bad = <<>>
        THEN [success |-> TRUE,
              data |-> [firstName |-> body.firstName.str,
                        lastName |-> body.lastName.str,
                        email |-> body.email.str]]
        ELSE [success |-> FALSE,
              issues |-> [i \in 1..Len(bad) |-> Issue(body, bad[i])]]

(***************************************************************************)
(* The store: DatabaseStorage over the waitlist_registrations table.       *)
(***************************************************************************)
\* Mutation: the WHERE clause compares lower(email).
SelectByEmail_CaseInsensitive(table, email) ==
    {row \in table : Lower(row.email) = Lower(email)}

\* Mutation: the WHERE clause compares the wrong column.
SelectByEmail_WrongColumn(table, email) == {row \in table : row.firstName = email}

\* db.select().from(waitlistRegistrations).where(eq(email, email))
SelectByEmail(table, email) == {row \in table : row.email = email}

\* Mutation: the destructured result is dropped and undefined is returned.
getWaitlistRegistrationByEmail_AlwaysUndefined(table, email) == [found |-> FALSE]

\* getWaitlistRegistrationByEmail: the first selected row, or undefined.
\* found = FALSE is the undefined result.
getWaitlistRegistrationByEmail(table, email) ==
    LET sel == SelectByEmail(table, email)
    IN  IF sel = {} THEN [found |-> FALSE]
        ELSE [found |-> TRUE, row |-> CHOOSE row \in sel : TRUE]

\* Mutation: the email column is declared without .unique().
UniqueEmailViolated_NoConstraint(table, email) == FALSE

\* email: text("email").notNull().unique()
UniqueEmailViolated(table, email) == \E row \in table : row.email = email

\* Mutation: the number of result rows is returned instead of the count.
getWaitlistCount_ResultLength(table) ==
    LET result == <<[count |-> Cardinality(table)]>>
    IN  Len(result)

\* Mutation: result[1]?.count || 0, past the only row of the result.
getWaitlistCount_WrongIndex(table) ==
    LET result == <<[count |-> Cardinality(table)]>>
    IN  IF Len(result) < 2 THEN 0 ELSE result[2].count

\* getWaitlistCount: result[0]?.count || 0 over SELECT count(*)
getWaitlistCount(table) ==
    LET result == <<[count |-> Cardinality(table)]>>
    IN  IF Len(result) = 0 \/ result[1].count = 0 THEN 0 ELSE result[1].count

\* createUser: db.insert(users).values(insertUser).returning()
createUser(table, insertUser, id) ==
    table \cup {[id |-> id, username |-> insertUser.username,
                 password |-> insertUser.password]}

(***************************************************************************)
(* Responses.                                                              *)
(***************************************************************************)
NoResponse == [status |-> 0]

ValidationFailed(issues) ==
    [status |-> 400, body |-> [message |-> "Validation failed", errors |-> issues]]

Conflict ==
    [status |-> 409,
     body |-> [message |-> "This email is already registered for the waitlist"]]

\* Mutation: the stored row is returned as it is, createdAt included.
Created_WholeRow(registration) ==
    [status |-> 201,
     body |-> [message |-> "Successfully added to waitlist",
               registration |-> registration]]

Created(registration) ==
    [status |-> 201,
     body |-> [message |-> "Successfully added to waitlist",
               registration |-> [id |-> registration.id,
                                 firstName |-> registration.firstName,
                                 lastName |-> registration.lastName,
                                 email |-> registration.email]]]

\* Mutation: the caught error is echoed in the response body.
CatchError_LeaksDetail(error) ==
    [status |-> 500, body |-> [message |-> "Internal server error", error |-> error]]

\* catch (error) { console.error(...); res.status(500).json(...) }
CatchError(error) == [status |-> 500, body |-> [message |-> "Internal server error"]]

\* Mutation: the handler adjusts the count before sending it.
GetCountResponse_PlusOne(table) ==
    [status |-> 200, body |-> [count |-> getWaitlistCount(table) + 1]]

GetCountResponse(table) == [status |-> 200, body |-> [count |-> getWaitlistCount(table)]]

(***************************************************************************)
(* State.                                                                  *)
(***************************************************************************)
VARIABLES
    rows,       \* the waitlist_registrations table
    now,        \* the database clock, read by defaultNow(); it advances
                \* with every insert, so it never exceeds MaxReqs
    reqs,       \* per POST request: position, payload, response, history
    countResp,  \* the response of the latest GET /api/waitlist/count
    countError, \* the error the latest GET handler caught, or "none"
    users,      \* the users table
    \* The Home page of one browser tab.
    formValues,         \* the form's field formValues
    errors,         \* formState.errors
    isSubmitted,    \* useState(false)
    mutationStatus, \* the state of the latest mutation of useMutation
    posted,         \* the payloads sent with POST /api/waitlist, in order
    pending,        \* the indices in posted of the requests in flight
    rendered,       \* what the last render put on the page
    successes,      \* how often onSuccess has run
    failures,       \* how often onError has run
    invalidations,  \* how often the count query has been invalidated
    currentTheme,   \* useState('default')
    lastTheme,      \* the value of the latest handleThemeChange call
    bodyClass       \* document.body.className

pageVars == <<formValues, errors, isSubmitted, mutationStatus, posted, pending,
              rendered, successes, failures, invalidations, currentTheme,
              lastTheme, bodyClass>>

vars == <<rows, now, reqs, countResp, countError, users, pageVars>>

(***************************************************************************)
(* The e-mail grammar of zod's string().email(): local part, "@", one or   *)
(* more dot-terminated labels and a top-level domain of two letters or     *)
(* more.                                                                   *)
(***************************************************************************)
Alpha == {"a", "b", "c", "d", "e", "o", "A", "B", "L"}
Alnum == Alpha \cup {"0", "7"}
LocalChars == Alnum \cup {"_", "'", "+", "-", "."}

LocalOk(l) ==
    /\ Len(l) >= 1
    /\ \A i \in 1..Len(l) : l[i] \in LocalChars
    /\ l[1] # "."
    /\ \A i \in 1..(Len(l) - 1) : ~(l[i] = "." /\ l[i + 1] = ".")
    /\ l[Len(l)] \in Alnum \cup {"_", "+", "-"}

DomainOk(d) ==
    \E j \in 2..(Len(d) - 2) :
        /\ d[j] = "."
        /\ \A i \in (j + 1)..Len(d) : d[i] \in Alpha
        /\ d[1] \in Alnum
        /\ \A i \in 1..(j - 1) : d[i] \in Alnum \cup {"-", "."}
        /\ \A i \in 1..(j - 1) : d[i] = "." => d[i + 1] \in Alnum

IsEmail(s) ==
    \E i \in 1..Len(s) :
        /\ s[i] = "@"
        /\ LocalOk(SubSeq(s, 1, i - 1))
        /\ DomainOk(SubSeq(s, i + 1, Len(s)))

(***************************************************************************)
(* The Home page: the signup form and the theme selector.                  *)
(***************************************************************************)
MaxSubmits == 2     \* signup requests one page sends in one behaviour

DefaultValues == [firstName |-> EmptyString, lastName |-> EmptyString,
                  email |-> EmptyString]

\* What the visitor may type into the three inputs.
FieldInputs ==
    [firstName |-> {EmptyString, Ada},
     lastName |-> {EmptyString, Lovelace},
     email |-> {EmptyString, NotAnEmail, EmailA}]

\* Mutation: the schema is used without the min(1) refinements.
waitlistSchema_NoMin(v) ==
    LET issues ==
            IF ~IsEmail(v.email)
            THEN {[path |-> "email",
                   message |-> "Please enter a valid email address"]}
            ELSE {}
    IN  [success |-> issues = {}, data |-> v, issues |-> issues]

\* waitlistSchema: insertWaitlistRegistrationSchema extended with min(1) on
\* both names and email() on email.  The inputs hold strings.
waitlistSchema(v) ==
    LET issues ==
            (IF Len(v.firstName) < 1
             THEN {[path |-> "firstName", message |-> "First name is required"]}
             ELSE {})
            \cup
            (IF Len(v.lastName) < 1
             THEN {[path |-> "lastName", message |-> "Last name is required"]}
             ELSE {})
            \cup
            (IF ~IsEmail(v.email)
             THEN {[path |-> "email",
                    message |-> "Please enter a valid email address"]}
             ELSE {})
    IN  [success |-> issues = {}, data |-> v, issues |-> issues]

Default == <<"d", "e", "f", "a", "u", "l", "t">>
Warm == <<"w", "a", "r", "m">>
Ocean == <<"o", "c", "e", "a", "n">>
Forest == <<"f", "o", "r", "e", "s", "t">>
Sunset == <<"s", "u", "n", "s", "e", "t">>

\* themes[i].value
Themes == {Default, Warm, Ocean, Forest, Sunset}

ThemePrefix == <<"t", "h", "e", "m", "e", "-">>

\* \w of the regular expression
WordChars ==
    {"a", "b", "c", "d", "e", "f", "g", "h", "i", "j", "k", "l", "m", "n",
     "o", "p", "q", "r", "s", "t", "u", "v", "w", "x", "y", "z",
     "A", "B", "C", "D", "E", "F", "G", "H", "I", "J", "K", "L", "M", "N",
     "O", "P", "Q", "R", "S", "T", "U", "V", "W", "X", "Y", "Z",
     "0", "1", "2", "3", "4", "5", "6", "7", "8", "9", "_"}

\* The class attribute of <body> when the page loads.
InitialBodyClass == <<"a", "p", "p">>

HasPrefix(s, prefix) ==
    /\ Len(s) >= Len(prefix)
    /\ SubSeq(s, 1, Len(prefix)) = prefix

RECURSIVE DropWord(_)
DropWord(s) ==
    IF s # <<>> /\ Head(s) \in WordChars THEN DropWord(Tail(s)) ELSE s

\* Mutation: the line that removes the old theme class is missing.
ReplaceThemeClasses_Missing(s) == s

\* className.replace(/theme-\w+/g, ''): every match, scanning from the left,
\* is removed.
RECURSIVE ReplaceThemeClasses(_)
ReplaceThemeClasses(s) ==
    IF s = <<>> THEN <<>>
    ELSE IF /\ HasPrefix(s, ThemePrefix)
            /\ Len(s) > Len(ThemePrefix)
            /\ s[Len(ThemePrefix) + 1] \in WordChars
         THEN ReplaceThemeClasses(
                  DropWord(SubSeq(s, Len(ThemePrefix) + 1, Len(s))))
         ELSE <<Head(s)>> \o ReplaceThemeClasses(Tail(s))

\* The class tokens of a class attribute: split on spaces, duplicates dropped.
RECURSIVE SplitTokens(_, _, _)
SplitTokens(s, cur, acc) ==
    LET closed == IF cur = <<>> \/ (\E i \in 1..Len(acc) : acc[i] = cur)
                  THEN acc ELSE Append(acc, cur)
    IN  IF s = <<>> THEN closed
        ELSE IF Head(s) = " " THEN SplitTokens(Tail(s), <<>>, closed)
        ELSE SplitTokens(Tail(s), Append(cur, Head(s)), acc)

TokenList(s) == SplitTokens(s, <<>>, <<>>)

RECURSIVE JoinTokens(_)
JoinTokens(tokens) ==
    IF tokens = <<>> THEN <<>>
    ELSE IF Len(tokens) = 1 THEN tokens[1]
    ELSE tokens[1] \o <<" ">> \o JoinTokens(Tail(tokens))

\* classList.add(token): the token joins the token set and the attribute is
\* written back as the tokens separated by single spaces.
classListAdd(s, token) ==
    LET tokens == TokenList(s)
    IN  JoinTokens(IF \E i \in 1..Len(tokens) : tokens[i] = token
                   THEN tokens ELSE Append(tokens, token))

InitPage ==
    /\ formValues = DefaultValues
    /\ errors = {}
    /\ isSubmitted = FALSE
    /\ mutationStatus = "idle"
    /\ posted = <<>>
    /\ pending = {}
    /\ rendered = [isPending |-> FALSE, isSubmitted |-> FALSE]
    /\ successes = 0
    /\ failures = 0
    /\ invalidations = 0
    /\ currentTheme = Default
    /\ lastTheme = Default
    /\ bodyClass = InitialBodyClass

serverVars == <<rows, now, reqs, countResp, countError, users>>
themeVars == <<currentTheme, lastTheme, bodyClass>>

\* The visitor edits one input of the form.
SetField(f, v) ==
    /\ ~rendered.isSubmitted
    /\ formValues[f] # v
    /\ formValues' = [formValues EXCEPT ![f] = v]
    /\ UNCHANGED <<errors, isSubmitted, mutationStatus, posted, pending,
                   rendered, successes, failures, invalidations, themeVars,
                   serverVars>>

\* The visitor presses the submit button, which the last render left
\* enabled: form.handleSubmit runs the resolver, and onSubmit calls
\* mutation.mutate(data) when the values pass.
PressSubmit ==
    /\ ~rendered.isSubmitted
    /\ ~rendered.isPending
    /\ Len(posted) < MaxSubmits
    /\ LET result == waitlistSchema(formValues)
       IN  IF result.success
           THEN /\ errors' = {}
                /\ posted' = Append(posted, result.data)
                /\ pending' = pending \cup {Len(posted) + 1}
                /\ mutationStatus' = "pending"
           ELSE /\ errors' = result.issues
                /\ errors' # errors
                /\ UNCHANGED <<posted, pending, mutationStatus>>
    /\ UNCHANGED <<formValues, isSubmitted, rendered, successes, failures,
                   invalidations, themeVars, serverVars>>

\* React renders the page from the current state.
Render ==
    /\ rendered' = [isPending |-> mutationStatus = "pending",
                    isSubmitted |-> isSubmitted]
    /\ rendered' # rendered
    /\ UNCHANGED <<formValues, errors, isSubmitted, mutationStatus, posted,
                   pending, successes, failures, invalidations, themeVars,
                   serverVars>>

\* onSuccess: setIsSubmitted(true), form.reset(), toast, invalidateQueries.
OnSuccess ==
    /\ isSubmitted' = TRUE
    /\ formValues' = DefaultValues
    /\ errors' = {}
    /\ invalidations' = invalidations + 1

\* Mutation: onError also switches to the thank-you message.
OnError_MarksSubmitted ==
    /\ isSubmitted' = TRUE
    /\ UNCHANGED <<formValues, errors, invalidations>>

\* onError: a destructive toast.
OnError ==
    UNCHANGED <<isSubmitted, formValues, errors, invalidations>>

\* The request posted as number i resolves.
MutationSucceeds(i) ==
    /\ i \in pending
    /\ pending' = pending \ {i}
    /\ mutationStatus' = IF i = Len(posted) THEN "success" ELSE mutationStatus
    /\ successes' = successes + 1
    /\ OnSuccess
    /\ UNCHANGED <<posted, rendered, failures, themeVars, serverVars>>

\* The request posted as number i rejects.
MutationFails(i) ==
    /\ i \in pending
    /\ pending' = pending \ {i}
    /\ mutationStatus' = IF i = Len(posted) THEN "error" ELSE mutationStatus
    /\ failures' = failures + 1
    /\ OnError
    /\ UNCHANGED <<posted, rendered, successes, themeVars, serverVars>>

\* handleThemeChange(theme), from the theme selector.
handleThemeChange(theme) ==
    /\ currentTheme' = theme
    /\ lastTheme' = theme
    /\ bodyClass' =
           LET replaced == ReplaceThemeClasses(bodyClass)
           IN  IF theme # Default
               THEN classListAdd(replaced, ThemePrefix \o theme)
               ELSE replaced
    /\ <<currentTheme', bodyClass'>> # <<currentTheme, bodyClass>>
    /\ UNCHANGED <<formValues, errors, isSubmitted, mutationStatus, posted,
                   pending, rendered, successes, failures, invalidations,
                   serverVars>>

NextPage ==
    \/ \E f \in DOMAIN FieldInputs : \E v \in FieldInputs[f] : SetField(f, v)
    \/ PressSubmit
    \/ Render
    \/ \E i \in 1..MaxSubmits : MutationSucceeds(i)
    \/ \E i \in 1..MaxSubmits : MutationFails(i)
    \/ \E theme \in Themes : handleThemeChange(theme)

NoData == [firstName |-> <<>>, lastName |-> <<>>, email |-> <<>>]

IdleReq ==
    [pc |-> "idle", body |-> MkBody(Undefined, Undefined, Undefined),
     data |-> NoData, resp |-> NoResponse,
     calls |-> <<>>,        \* store calls made so far
     error |-> "none",      \* the error the handler caught
     lookup |-> "none",     \* the lookup has "returned", "threw", or "none"
     existing |-> [found |-> FALSE],    \* what the lookup returned
     idSource |-> "none",   \* where the stored row's id came from
     responses |-> 0,       \* how many responses the handler has sent
     startRows |-> {},      \* the table when the request arrived
     endRows |-> {},        \* the table when the response was sent
     alone |-> TRUE,        \* no other request has acted while in flight
     doneBefore |-> {}]     \* the requests answered before this one arrived

Init ==
    /\ rows = {}
    /\ now = 0
    /\ reqs = [r \in Reqs |-> IdleReq]
    /\ countResp = NoResponse
    /\ countError = "none"
    /\ users = {}
    /\ InitPage

\* Every request other than r that is in flight sees r act.
Interleave(rq, r) ==
    [q \in Reqs |-> IF q # r /\ rq[q].pc \in {"lookup", "insert"}
                    THEN [rq[q] EXCEPT !.alone = FALSE] ELSE rq[q]]

Respond(r, response, table) ==
    [reqs[r] EXCEPT !.pc = "done", !.resp = response, !.endRows = table,
                    !.responses = @ + 1]

(***************************************************************************)
(* POST /api/waitlist                                                      *)
(***************************************************************************)
\* Mutation: the lookup is issued before the validation result is tested.
PostWaitlist_LookupBeforeValidate(r, body) ==
    /\ reqs[r].pc = "idle"
    /\ \A q \in Reqs : q < r => reqs[q].pc # "idle"
    /\ LET validationResult == safeParse(body)
           arrived == [reqs[r] EXCEPT !.body = body, !.startRows = rows,
                          !.doneBefore = {q \in Reqs : reqs[q].pc = "done"},
                          !.calls = <<"getWaitlistRegistrationByEmail">>]
           next == IF ~validationResult.success
                   THEN [arrived EXCEPT !.pc = "done",
                            !.resp = ValidationFailed(validationResult.issues),
                            !.endRows = rows, !.responses = @ + 1]
                   ELSE [arrived EXCEPT !.pc = "lookup",
                            !.data = validationResult.data]
       IN  reqs' = Interleave([reqs EXCEPT ![r] = next], r)
    /\ UNCHANGED <<rows, now, countResp, countError, users, pageVars>>

\* The request arrives: safeParse, then 400 or the lookup is issued.
PostWaitlist(r, body) ==
    /\ reqs[r].pc = "idle"
    /\ \A q \in Reqs : q < r => reqs[q].pc # "idle"
    /\ LET validationResult == safeParse(body)
           arrived == [reqs[r] EXCEPT !.body = body, !.startRows = rows,
                          !.doneBefore = {q \in Reqs : reqs[q].pc = "done"}]
           next == IF ~validationResult.success
                   THEN [arrived EXCEPT !.pc = "done",
                            !.resp = ValidationFailed(validationResult.issues),
                            !.endRows = rows, !.responses = @ + 1]
                   ELSE [arrived EXCEPT !.pc = "lookup",
                            !.data = validationResult.data,
                            !.calls = <<"getWaitlistRegistrationByEmail">>]
       IN  reqs' = Interleave([reqs EXCEPT ![r] = next], r)
    /\ UNCHANGED <<rows, now, countResp, countError, users, pageVars>>

\* Mutation: the 409 response is sent without return; the handler goes on.
Lookup_NoReturn(r) ==
    /\ reqs[r].pc = "lookup"
    /\ LET existingRegistration ==
               getWaitlistRegistrationByEmail(rows, reqs[r].data.email)
           returned == [reqs[r] EXCEPT !.lookup = "returned",
                                       !.existing = existingRegistration]
           next == IF existingRegistration.found
                   THEN [returned EXCEPT !.pc = "insert", !.resp = Conflict,
                            !.responses = @ + 1,
                            !.calls = Append(@, "createWaitlistRegistration")]
                   ELSE [returned EXCEPT !.pc = "insert",
                            !.calls = Append(@, "createWaitlistRegistration")]
       IN  reqs' = Interleave([reqs EXCEPT ![r] = next], r)
    /\ UNCHANGED <<rows, now, countResp, countError, users, pageVars>>

\* Mutation: the handler keeps the emails it has seen in a module-level set
\* and answers 409 from it.
Lookup_InProcessCache(r) ==
    /\ reqs[r].pc = "lookup"
    /\ LET existingRegistration ==
               getWaitlistRegistrationByEmail(rows, reqs[r].data.email)
           seen == \E q \in Reqs :
                      /\ q # r /\ reqs[q].pc # "idle"
                      /\ reqs[q].data.email = reqs[r].data.email
           returned == [reqs[r] EXCEPT !.lookup = "returned",
                                       !.existing = existingRegistration]
           next == IF existingRegistration.found \/ seen
                   THEN [returned EXCEPT !.pc = "done", !.resp = Conflict,
                                         !.endRows = rows, !.responses = @ + 1]
                   ELSE [returned EXCEPT !.pc = "insert",
                            !.calls = Append(@, "createWaitlistRegistration")]
       IN  reqs' = Interleave([reqs EXCEPT ![r] = next], r)
    /\ UNCHANGED <<rows, now, countResp, countError, users, pageVars>>

\* Mutation: the handler does not test existingRegistration.
Lookup_IgnoresResult(r) ==
    /\ reqs[r].pc = "lookup"
    /\ LET existingRegistration ==
               getWaitlistRegistrationByEmail(rows, reqs[r].data.email)
           returned == [reqs[r] EXCEPT !.lookup = "returned",
                                       !.existing = existingRegistration]
           next == [returned EXCEPT !.pc = "insert",
                       !.calls = Append(@, "createWaitlistRegistration")]
       IN  reqs' = Interleave([reqs EXCEPT ![r] = next], r)
    /\ UNCHANGED <<rows, now, countResp, countError, users, pageVars>>

\* The SELECT by email executes: 409 or the insert is issued.
Lookup(r) ==
    /\ reqs[r].pc = "lookup"
    /\ LET existingRegistration ==
               getWaitlistRegistrationByEmail(rows, reqs[r].data.email)
           returned == [reqs[r] EXCEPT !.lookup = "returned",
                                       !.existing = existingRegistration]
           next == IF existingRegistration.found
                   THEN [returned EXCEPT !.pc = "done", !.resp = Conflict,
                                         !.endRows = rows, !.responses = @ + 1]
                   ELSE [returned EXCEPT !.pc = "insert",
                            !.calls = Append(@, "createWaitlistRegistration")]
       IN  reqs' = Interleave([reqs EXCEPT ![r] = next], r)
    /\ UNCHANGED <<rows, now, countResp, countError, users, pageVars>>

\* Mutation: the handler passes req.body to the store, caller's id included.
InsertValues_RawBody(r) ==
    LET body == reqs[r].body
        fields == [firstName |-> body.firstName.str,
                   lastName |-> body.lastName.str,
                   email |-> body.email.str]
    IN  IF "id" \in DOMAIN body
        THEN [firstName |-> fields.firstName, lastName |-> fields.lastName,
              email |-> fields.email, id |-> body.id.uuid]
        ELSE fields

\* The object the handler passes to createWaitlistRegistration.
InsertValues(r) ==
    [firstName |-> reqs[r].data.firstName,
     lastName |-> reqs[r].data.lastName,
     email |-> reqs[r].data.email]

\* Mutation: the statement replaces the table's content by the new row.
InsertRow_Replaces(table, registration) == {registration}

\* Mutation: the statement is sent twice and stores the row under two ids.
InsertRow_Twice(table, registration) ==
    table \cup {registration, [registration EXCEPT !.id = @ + MaxReqs]}

\* db.insert(waitlistRegistrations).values(...): one row is appended.
InsertRow(table, registration) == table \cup {registration}

\* The INSERT executes: a new row and 201, or a unique violation, which the
\* handler's catch turns into 500.  The id column takes the value given in
\* values when there is one, and gen_random_uuid() otherwise; created_at
\* takes now().
Insert(r) ==
    /\ reqs[r].pc = "insert"
    /\ IF UniqueEmailViolated(rows, reqs[r].data.email)
       THEN /\ reqs' = Interleave(
                   [reqs EXCEPT ![r] =
                       [Respond(r, CatchError("unique_violation"), rows)
                           EXCEPT !.error = "unique_violation"]], r)
            /\ UNCHANGED <<rows, now>>
       ELSE \E id \in Ids :
               /\ \A row \in rows : row.id # id
               /\ LET values == InsertValues(r)
                      given == "id" \in DOMAIN values
                      registration ==
                          [id |-> IF given THEN values.id ELSE id,
                           firstName |-> values.firstName,
                           lastName |-> values.lastName,
                           email |-> values.email,
                           createdAt |-> now]
                  IN  /\ rows' = InsertRow(rows, registration)
                      /\ now' = now + 1
                      /\ reqs' = Interleave(
                             [reqs EXCEPT ![r] =
                                 [Respond(r, Created(registration), rows')
                                     EXCEPT !.idSource =
                                         IF given THEN "caller" ELSE "generated"]], r)
    /\ UNCHANGED <<countResp, countError, users, pageVars>>

(***************************************************************************)
(* Store failures: the database is unreachable when the statement runs.    *)
(***************************************************************************)
\* Mutation: the lookup's rejection is swallowed and read as undefined.
LookupFail_Swallowed(r) ==
    /\ reqs[r].pc = "lookup"
    /\ reqs' = Interleave(
           [reqs EXCEPT ![r] =
               [reqs[r] EXCEPT !.pc = "insert", !.lookup = "threw",
                   !.calls = Append(@, "createWaitlistRegistration")]], r)
    /\ UNCHANGED <<rows, now, countResp, countError, users, pageVars>>

LookupFail(r) ==
    /\ reqs[r].pc = "lookup"
    /\ reqs' = Interleave(
           [reqs EXCEPT ![r] =
               [Respond(r, CatchError("connection_error"), rows)
                   EXCEPT !.error = "connection_error", !.lookup = "threw"]], r)
    /\ UNCHANGED <<rows, now, countResp, countError, users, pageVars>>

InsertFail(r) ==
    /\ reqs[r].pc = "insert"
    /\ reqs' = Interleave(
           [reqs EXCEPT ![r] =
               [Respond(r, CatchError("connection_error"), rows)
                   EXCEPT !.error = "connection_error"]], r)
    /\ UNCHANGED <<rows, now, countResp, countError, users, pageVars>>

(***************************************************************************)
(* GET /api/waitlist/count                                                 *)
(***************************************************************************)
GetCount ==
    /\ countResp' = GetCountResponse(rows)
    /\ countError' = "none"
    /\ countResp' # countResp
    /\ UNCHANGED <<rows, now, reqs, users, pageVars>>

GetCountFail ==
    /\ countResp' = CatchError("connection_error")
    /\ countError' = "connection_error"
    /\ countResp' # countResp
    /\ UNCHANGED <<rows, now, reqs, users, pageVars>>

\* Mutation: a registration route that stores a user is wired in.
Next_WithUserRoute ==
    \/ \E r \in Reqs, body \in Bodies : PostWaitlist(r, body)
    \/ \E r \in Reqs : Lookup(r)
    \/ \E r \in Reqs : Insert(r)
    \/ GetCount
    \/ /\ users' = createUser(users, [username |-> Ada, password |-> Bob], 1)
       /\ users' # users
       /\ UNCHANGED <<rows, now, reqs, countResp, countError, pageVars>>

Next ==
    \/ \E r \in Reqs, body \in Bodies : PostWaitlist(r, body)
    \/ \E r \in Reqs : Lookup(r)
    \/ \E r \in Reqs : Insert(r)
    \/ GetCount

\* The database is reachable throughout.
Spec == Init /\ [][Next]_vars

NextFault ==
    \/ Next
    \/ \E r \in Reqs : LookupFail(r)
    \/ \E r \in Reqs : InsertFail(r)
    \/ GetCountFail

\* The database may be unreachable at any statement.
SpecFault == Init /\ [][NextFault]_vars

\* One browser tab on the Home page; the server is left out.
SpecForm == Init /\ [][NextPage]_vars

(***************************************************************************)
(* Properties.                                                             *)
(***************************************************************************)
Arrived(r) == reqs[r].pc # "idle"
Done(r) == reqs[r].pc = "done"
Accepted(r) == Arrived(r) /\ \A i \in 1..Len(Fields) : reqs[r].body[Fields[i]].type = "string"
HasEmail(table, email) == \E row \in table : row.email = email
Called(r, op) == \E i \in 1..Len(reqs[r].calls) : reqs[r].calls[i] = op

\* C1: in every reachable state of the table, under every interleaving of
\* POST /api/waitlist requests, no two rows carry the same email.
C1_UniqueEmail ==
    \A a, b \in rows : a.email = b.email => a = b

\* Two requests for one email both reached the insert and both were answered.
C1_Witness ==
    \E r, q \in Reqs :
        /\ r # q /\ Done(r) /\ Done(q)
        /\ reqs[r].data.email = reqs[q].data.email
        /\ Called(r, "createWaitlistRegistration")
        /\ Called(q, "createWaitlistRegistration")
        /\ HasEmail(rows, reqs[r].data.email)

\* C2: a payload the schema accepts whose email is not registered when the
\* request arrives, handled with no other request interleaved, is answered
\* 201, and GET /api/waitlist/count afterwards returns one more than before.
C2_CreatedCountPlusOne ==
    \A r \in Reqs :
        (/\ Done(r) /\ Accepted(r) /\ reqs[r].alone
         /\ ~HasEmail(reqs[r].startRows, reqs[r].body.email.str))
        => /\ reqs[r].resp.status = 201
           /\ GetCountResponse(reqs[r].endRows).body.count
                  = GetCountResponse(reqs[r].startRows).body.count + 1

\* A second signup, for a new email, was created on a non-empty table.
C2_Witness ==
    \E r \in Reqs :
        /\ Done(r) /\ reqs[r].alone /\ reqs[r].resp.status = 201
        /\ reqs[r].startRows # {}
        /\ Cardinality(reqs[r].endRows) = Cardinality(reqs[r].startRows) + 1

\* C3: a request whose email is registered when it arrives never changes
\* the table and is answered with the 409 conflict response, whatever its
\* name fields are.
C3_ResubmitConflict ==
    [][\A r \in Reqs :
          (/\ reqs'[r].pc # reqs[r].pc
           /\ \A i \in 1..Len(Fields) : reqs'[r].body[Fields[i]].type = "string"
           /\ HasEmail(reqs'[r].startRows, reqs'[r].body.email.str))
          => /\ rows' = rows
             /\ reqs'[r].pc = "done" => reqs'[r].resp = Conflict]_vars

\* A registered email was resubmitted under another first name and refused.
C3_Witness ==
    \E r \in Reqs :
        /\ Done(r) /\ reqs[r].resp.status = 409
        /\ \E row \in reqs[r].startRows :
              /\ row.email = reqs[r].data.email
              /\ row.firstName # reqs[r].data.firstName
        /\ reqs[r].endRows = reqs[r].startRows

\* C4 (as claimed): every payload that lacks firstName, lacks lastName or
\* carries a syntactically invalid email is answered 400 and adds no row.
C4_InvalidPayloadRejected ==
    \A r \in Reqs :
        (/\ Done(r)
         /\ \/ reqs[r].body.firstName = Undefined
            \/ reqs[r].body.lastName = Undefined
            \/ reqs[r].body.email.type # "string"
            \/ ~IsEmail(reqs[r].body.email.str))
        => /\ reqs[r].resp.status = 400
           /\ reqs[r].endRows = reqs[r].startRows

\* C5 (as claimed): a payload whose firstName or lastName is the empty
\* string is answered 400 and makes no store call.
C5_EmptyNameRejected ==
    \A r \in Reqs :
        (/\ Arrived(r)
         /\ \/ reqs[r].body.firstName = Str(EmptyString)
            \/ reqs[r].body.lastName = Str(EmptyString))
        => /\ Done(r)
           /\ reqs[r].resp.status = 400
           /\ reqs[r].calls = <<>>

\* C6 (as claimed): a unique violation raised by the insert is answered
\* with the same 409 conflict response as the duplicate pre-check.
C6_InsertViolationIsConflict ==
    \A r \in Reqs :
        reqs[r].error = "unique_violation" => reqs[r].resp = Conflict

\* C7: whenever a signup handler catches an error (the database was
\* unreachable, or the insert hit the unique constraint after a concurrent
\* insert), the response is 500 and its body is exactly the fixed message.
C7_GenericServerError ==
    \A r \in Reqs :
        /\ reqs[r].error # "none"
             => /\ Done(r)
                /\ reqs[r].resp.status = 500
        /\ reqs[r].resp.status = 500
             => reqs[r].resp.body = [message |-> "Internal server error"]

\* A request lost the race between its duplicate check and its insert.
C7_Witness ==
    \E r \in Reqs :
        /\ reqs[r].error = "unique_violation"
        /\ reqs[r].resp.status = 500
        /\ ~HasEmail(reqs[r].startRows, reqs[r].data.email)
        /\ HasEmail(reqs[r].endRows, reqs[r].data.email)

\* C8: when an accepted payload for an unregistered email is submitted,
\* answered without interleaving, and then submitted again, the first
\* answer is 201, the second is the 409 conflict response, and the table
\* holds exactly one row for the email.
C8_RetryCreatedThenConflict ==
    \A r, q \in Reqs :
        (/\ r # q /\ Done(r) /\ Done(q)
         /\ Accepted(r) /\ reqs[r].alone
         /\ ~HasEmail(reqs[r].startRows, reqs[r].body.email.str)
         /\ reqs[q].body = reqs[r].body
         /\ r \in reqs[q].doneBefore)
        => /\ reqs[r].resp.status = 201
           /\ reqs[q].resp.status = 409
           /\ reqs[q].resp.body.message
                  = "This email is already registered for the waitlist"
           /\ Cardinality({row \in rows : row.email = reqs[r].body.email.str}) = 1

\* The same payload was answered twice, the second time after the first.
C8_Witness ==
    \E r, q \in Reqs :
        /\ r # q /\ Done(r) /\ Done(q)
        /\ reqs[q].body = reqs[r].body
        /\ r \in reqs[q].doneBefore
        /\ reqs[r].resp.status = 201
        /\ reqs[q].resp.status = 409

\* C9: among the requests for one email, however their store calls
\* interleave, at most one is answered 201, and once all that arrived are
\* answered the table holds exactly one row for the email.
C9_ConcurrentDuplicates ==
    \A r \in Reqs :
        Accepted(r) =>
            LET email == reqs[r].body.email.str
                same == {q \in Reqs : Accepted(q) /\ reqs[q].body.email.str = email}
            IN  /\ Cardinality({q \in same : reqs[q].resp.status = 201}) <= 1
                /\ (\A q \in same : Done(q))
                     => Cardinality({row \in rows : row.email = email}) = 1

\* Two requests for one email overlapped: both had passed the duplicate
\* check before either insert ran.
C9_Witness ==
    \E r, q \in Reqs :
        /\ r # q /\ Done(r) /\ Done(q)
        /\ reqs[r].data.email = reqs[q].data.email
        /\ reqs[r].resp.status = 201
        /\ Called(q, "createWaitlistRegistration")
        /\ ~reqs[r].alone /\ ~reqs[q].alone

\* C10: a request whose payload fails validation is answered 400 at once
\* and has made no store call, neither the lookup nor the insert.
C10_NoStoreAccessOnInvalid ==
    \A r \in Reqs :
        /\ (Arrived(r) /\ ~Accepted(r))
             => /\ Done(r)
                /\ reqs[r].resp.status = 400
                /\ reqs[r].calls = <<>>
        /\ reqs[r].resp.status = 400 => reqs[r].calls = <<>>

\* A payload without firstName was refused while another request held rows.
C10_Witness ==
    \E r \in Reqs :
        /\ Done(r) /\ reqs[r].resp.status = 400
        /\ reqs[r].body.firstName = Undefined
        /\ reqs[r].calls = <<>>
        /\ rows # {}

LookupName == "getWaitlistRegistrationByEmail"
InsertName == "createWaitlistRegistration"

\* C11: the registration object of a 201 response has exactly the fields
\* id, firstName, lastName and email; the three name and email values are
\* the ones the caller sent, and id is the id of the stored row.
C11_CreatedResponseFields ==
    \A r \in Reqs :
        reqs[r].resp.status = 201 =>
            LET reg == reqs[r].resp.body.registration
            IN  /\ DOMAIN reg = {"id", "firstName", "lastName", "email"}
                /\ reg.firstName = reqs[r].body.firstName.str
                /\ reg.lastName = reqs[r].body.lastName.str
                /\ reg.email = reqs[r].body.email.str
                /\ \E row \in rows :
                      /\ row.id = reg.id
                      /\ row.email = reg.email
                      /\ row.firstName = reg.firstName
                      /\ row.lastName = reg.lastName
                      /\ row \notin reqs[r].startRows

\* A signup was answered 201 and its row carries a createdAt.
C11_Witness ==
    \E r \in Reqs :
        /\ reqs[r].resp.status = 201
        /\ \E row \in rows :
              /\ row.id = reqs[r].resp.body.registration.id
              /\ "createdAt" \in DOMAIN row

\* C12: the store's count is the number of rows, which is the number of
\* signups answered 201, and it is the integer 0 on the empty table.
C12_CountIsRowCount ==
    /\ getWaitlistCount(rows) \in Nat
    /\ getWaitlistCount(rows)
           = Cardinality({r \in Reqs : reqs[r].resp.status = 201})
    /\ rows = {} => getWaitlistCount(rows) = 0

\* The count was asked for and answered 0 while the table was still empty
\* after a refused signup.
C12_Witness ==
    /\ rows = {}
    /\ \E r \in Reqs : Done(r)
    /\ countResp.status = 200
    /\ countResp.body.count = 0

\* C13: every GET /api/waitlist/count leaves the table as it is and answers
\* 200 with exactly the store's count, or the generic 500 when the store's
\* count operation failed.
C13_GetCountVerbatim ==
    [][(countResp' # countResp \/ countError' # countError)
          => /\ rows' = rows
             /\ IF countError' = "none"
                THEN countResp' = [status |-> 200,
                                   body |-> [count |-> getWaitlistCount(rows)]]
                ELSE countResp' = [status |-> 500,
                                   body |-> [message |-> "Internal server error"]]]_vars

\* The count was answered with the size of a non-empty table.
C13_Witness ==
    /\ rows # {}
    /\ countError = "none"
    /\ countResp.status = 200
    /\ countResp.body.count = Cardinality(rows)

\* C14: an insert for an email that already has a row fails with a unique
\* violation and leaves the table unchanged.
C14_InsertDuplicateFails ==
    [][\A r \in Reqs :
          (/\ reqs[r].pc = "insert" /\ reqs'[r].pc = "done"
           /\ HasEmail(rows, reqs[r].data.email))
          => /\ rows' = rows
             /\ reqs'[r].error = "unique_violation"
             /\ reqs'[r].resp.status # 201]_vars

\* An insert was refused for an email whose row another request had stored.
C14_Witness ==
    \E r, q \in Reqs :
        /\ r # q
        /\ reqs[r].error = "unique_violation"
        /\ reqs[q].resp.status = 201
        /\ reqs[q].data.email = reqs[r].data.email
        /\ reqs[r].endRows = reqs[q].endRows

\* C15: a lookup that returns leaves the table unchanged; it returns a row
\* exactly when the table holds a row with the argument's email, and the
\* row it returns is that row.
C15_LookupByEmail ==
    [][\A r \in Reqs :
          (reqs[r].lookup = "none" /\ reqs'[r].lookup = "returned")
          => /\ rows' = rows
             /\ reqs'[r].existing.found <=> HasEmail(rows, reqs[r].data.email)
             /\ reqs'[r].existing.found
                  => /\ reqs'[r].existing.row \in rows
                     /\ reqs'[r].existing.row.email = reqs[r].data.email]_vars

\* One lookup returned a row while the table held a row for another email
\* as well, and another lookup had returned absent.
C15_Witness ==
    \E r, q \in Reqs :
        /\ reqs[r].lookup = "returned" /\ reqs[r].existing.found
        /\ reqs[q].lookup = "returned" /\ ~reqs[q].existing.found

\* C16: a row, once stored, stays in the table with the same id, names,
\* email and createdAt, so the number of rows never decreases.
C16_RowsImmutable ==
    [][/\ rows \subseteq rows'
       /\ Cardinality(rows') >= Cardinality(rows)]_vars

\* A second row was stored after the first; the first is still there.
C16_Witness ==
    \E a, b \in rows : a.createdAt < b.createdAt

\* C17: row ids are unique, every stored row's id was generated by the
\* database, and an id in the payload never becomes the row's id source.
C17_ServerGeneratedIds ==
    /\ \A a, b \in rows : a.id = b.id => a = b
    /\ \A row \in rows : row.id \in Ids
    /\ \A r \in Reqs :
          reqs[r].resp.status = 201 => reqs[r].idSource = "generated"

\* A payload carrying an id was stored under a different, generated id.
C17_Witness ==
    \E r \in Reqs :
        /\ "id" \in DOMAIN reqs[r].body
        /\ reqs[r].resp.status = 201
        /\ reqs[r].idSource = "generated"
        /\ reqs[r].resp.body.registration.id # reqs[r].body.id.uuid

\* C18: a request calls the insert only after its lookup has returned
\* absent, and a request whose lookup returned a row never calls the insert.
C18_InsertOnlyAfterAbsent ==
    \A r \in Reqs :
        /\ Called(r, InsertName)
             => /\ reqs[r].calls = <<LookupName, InsertName>>
                /\ reqs[r].lookup = "returned"
                /\ ~reqs[r].existing.found
        /\ (reqs[r].lookup = "returned" /\ reqs[r].existing.found)
             => /\ ~Called(r, InsertName)
                /\ reqs[r].resp = Conflict

\* One request's lookup found a row and it stopped there; another's found
\* none and it called the insert.
C18_Witness ==
    \E r, q \in Reqs :
        /\ reqs[r].existing.found /\ reqs[r].calls = <<LookupName>> /\ Done(r)
        /\ reqs[q].lookup = "returned" /\ Called(q, InsertName)

\* C19: a step of a request that ends it with 201 adds exactly one row, the
\* request's own, and keeps every other row; every other step of a request,
\* in particular one that ends it with 400 or 409, leaves the table as it is.
C19_OneRowPerCall ==
    [][\A r \in Reqs :
          reqs'[r].pc # reqs[r].pc
          => IF reqs'[r].resp.status = 201
             THEN /\ rows \subseteq rows'
                  /\ Cardinality(rows' \ rows) = 1
                  /\ \A row \in rows' \ rows : row.email = reqs[r].data.email
             ELSE rows' = rows]_vars

\* A signup was created on a table that already held a row for another
\* email, and that row is kept.
C19_Witness ==
    \E r \in Reqs :
        /\ reqs[r].resp.status = 201
        /\ \E row \in reqs[r].startRows :
              /\ row.email # reqs[r].data.email
              /\ row \in rows
        /\ Cardinality(rows) = Cardinality(reqs[r].startRows) + 1

\* C20: no step of any handler changes the users table.
C20_UsersUntouched ==
    [][users' = users]_vars

\* Signups and a count were handled and the users table is as it started.
C20_Witness ==
    /\ users = {}
    /\ rows # {}
    /\ countResp.status = 200
    /\ \E r \in Reqs : Done(r)

InternalServerError == [status |-> 500, body |-> [message |-> "Internal server error"]]

\* C21: every step of a request is determined by the request's own payload,
\* the table at that store call and whether that call failed: nothing else
\* in the process enters.  Two requests with the same payload that meet the
\* same table and the same store behaviour therefore get the same outcome
\* and the same table change, up to the generated id and timestamp.
C21_OutcomeDependsOnOwnInputs ==
    [][\A r \in Reqs :
          reqs'[r].pc # reqs[r].pc =>
            CASE reqs[r].pc = "idle" ->
                   /\ rows' = rows
                   /\ IF \A i \in 1..Len(Fields) :
                            reqs'[r].body[Fields[i]].type = "string"
                      THEN /\ reqs'[r].pc = "lookup"
                           /\ reqs'[r].resp.status = 0
                           /\ \A i \in 1..Len(Fields) :
                                 reqs'[r].data[Fields[i]]
                                     = reqs'[r].body[Fields[i]].str
                      ELSE /\ reqs'[r].pc = "done"
                           /\ reqs'[r].resp.status = 400
              [] reqs[r].pc = "lookup" ->
                   /\ rows' = rows
                   /\ IF reqs'[r].lookup = "threw"
                      THEN reqs'[r].pc = "done" /\ reqs'[r].resp = InternalServerError
                      ELSE IF HasEmail(rows, reqs[r].data.email)
                      THEN reqs'[r].pc = "done" /\ reqs'[r].resp = Conflict
                      ELSE reqs'[r].pc = "insert" /\ reqs'[r].resp.status = 0
              [] reqs[r].pc = "insert" ->
                   /\ reqs'[r].pc = "done"
                   /\ IF reqs'[r].error = "connection_error"
                         \/ HasEmail(rows, reqs[r].data.email)
                      THEN rows' = rows /\ reqs'[r].resp = InternalServerError
                      ELSE /\ reqs'[r].resp.status = 201
                           /\ \E row \in rows' :
                                 /\ rows' = rows \cup {row}
                                 /\ row \notin rows
                                 /\ row.firstName = reqs[r].data.firstName
                                 /\ row.lastName = reqs[r].data.lastName
                                 /\ row.email = reqs[r].data.email
                                 /\ reqs'[r].resp.body.registration.email = row.email
              [] OTHER -> FALSE]_vars

\* Two requests with the same payload both looked up the email on the same
\* table, and both lookups gave the same answer.
C21_Witness ==
    \E r, q \in Reqs :
        /\ r # q
        /\ reqs[r].body = reqs[q].body
        /\ reqs[r].startRows = reqs[q].startRows
        /\ reqs[r].lookup = "returned" /\ reqs[q].lookup = "returned"
        /\ reqs[r].existing = reqs[q].existing
        /\ reqs[r].pc = "insert" /\ reqs[q].pc = "insert"

\* C22: a request that has been handled has sent exactly one response, with
\* status 201, 400, 409 or 500; a request still in flight has sent none; no
\* request ever sends a second one, also when a store call throws.
C22_ExactlyOneResponse ==
    \A r \in Reqs :
        /\ reqs[r].responses <= 1
        /\ Done(r) <=> reqs[r].responses = 1
        /\ Done(r) => reqs[r].resp.status \in {201, 400, 409, 500}
        /\ ~Done(r) => reqs[r].resp.status = 0

\* One request was answered after its store call threw, another after a 409.
C22_Witness ==
    \E r, q \in Reqs :
        /\ reqs[r].error # "none" /\ reqs[r].responses = 1
        /\ reqs[q].resp.status \in {201, 409} /\ reqs[q].responses = 1

\* C23: when the lookup throws, the request ends there: the table is
\* unchanged, the insert is never called and the response is the generic 500.
C23_LookupThrows ==
    [][\A r \in Reqs :
          reqs'[r].lookup = "threw"
          => /\ reqs'[r].pc = "done"
             /\ reqs'[r].calls = <<LookupName>>
             /\ reqs'[r].resp = InternalServerError
             /\ reqs[r].lookup # "threw" => rows' = rows]_vars

\* A lookup threw while the table held a row.
C23_Witness ==
    \E r \in Reqs :
        /\ reqs[r].lookup = "threw"
        /\ Done(r)
        /\ reqs[r].endRows # {}
        /\ reqs[r].endRows = reqs[r].startRows

\* C24: emails are compared as exact strings.  A signup handled alone whose
\* email differs only in letter case from a registered one is answered 201,
\* and afterwards both rows are in the table.
C24_EmailCaseSensitive ==
    \A r \in Reqs :
        (/\ Done(r) /\ Accepted(r) /\ reqs[r].alone
         /\ ~HasEmail(reqs[r].startRows, reqs[r].body.email.str)
         /\ \E row \in reqs[r].startRows :
               Lower(row.email) = Lower(reqs[r].body.email.str))
        => /\ reqs[r].resp.status = 201
           /\ \E a, b \in reqs[r].endRows :
                 /\ a.email # b.email
                 /\ Lower(a.email) = Lower(b.email)
                 /\ b.email = reqs[r].body.email.str

\* Two signups whose emails differ only in case were both answered 201.
C24_Witness ==
    \E r, q \in Reqs :
        /\ reqs[r].resp.status = 201 /\ reqs[q].resp.status = 201
        /\ reqs[r].data.email # reqs[q].data.email
        /\ Lower(reqs[r].data.email) = Lower(reqs[q].data.email)
        /\ Cardinality(rows) = 2

ValidFormData(v) ==
    /\ Len(v.firstName) >= 1
    /\ Len(v.lastName) >= 1
    /\ IsEmail(v.email)

\* C25: the form sends POST /api/waitlist only with the values it holds when
\* submit is pressed, and only when firstName and lastName are non-empty and
\* email passes the email check; such a payload passes the server's schema.
\* When the values fail, no request is sent.
C25_OnlyValidDataPosted ==
    [][/\ posted' # posted
          => /\ posted' = Append(posted, formValues)
             /\ ValidFormData(formValues)
             /\ safeParse(MkBody(Str(formValues.firstName),
                                 Str(formValues.lastName),
                                 Str(formValues.email))).success
       /\ (errors' # errors /\ errors' # {}) => posted' = posted]_vars

\* One payload was sent, and a later press with bad values was blocked.
C25_Witness ==
    /\ Len(posted) = 1
    /\ errors # {}
    /\ ~ValidFormData(formValues)

C27_SingleRequestInFlight ==
    Cardinality(pending) <= 1

ThemeTokens(s) ==
    LET tokens == TokenList(s)
    IN  {tokens[i] : i \in {j \in 1..Len(tokens) :
                               HasPrefix(tokens[j], ThemePrefix)}}

\* C28: the body carries no theme- class when the current theme is default
\* and exactly the class theme-<currentTheme> otherwise, and currentTheme is
\* the value of the latest handleThemeChange call.
C28_OneThemeClass ==
    /\ currentTheme = lastTheme
    /\ ThemeTokens(bodyClass) =
           IF currentTheme = Default THEN {}
           ELSE {ThemePrefix \o currentTheme}

\* A theme was selected and default was selected again afterwards.
C28_Witness ==
    /\ currentTheme = Default
    /\ bodyClass # InitialBodyClass
    /\ ThemeTokens(bodyClass) = {}

====
